---- MODULE Spec2Model ----
(***************************************************************************)
(* Event-to-frame integration of spikingjelly/datasets/__init__.py.        *)
(*                                                                         *)
(* numpy arrays are modelled as functions with domain 0..n-1, so that the  *)
(* indices of the model are the indices of the source.  An Event Record is *)
(* the dict {'t','x','y','p'} of four arrays of the same length.           *)
(***************************************************************************)
EXTENDS Integers, Sequences, FiniteSets, TLC

\* ------------------------------------------------------------------ bounds
\* Sensor width and height (get_H_W of a dataset), kept tiny.
W == 2
H == 2
\* Longest Event Record given to the segment integrator.
MaxSegEvents == 2

\* Longest timestamp array given to the segmentation planner, its largest
\* timestamp and the largest frames_num.
MaxPlanEvents == 4
MaxPlanTime == 4
MaxFramesNum == 3
\* Longest Event Record given to the duration binner, its largest timestamp
\* and the largest duration.
MaxBinEvents == 3
MaxBinTime == 3
MaxDuration == 2
\* Longest frame sequence given to the padder and the largest target length.
MaxPadFrames == 3
MaxPadTarget == 4
\* Largest number of frames one events file is binned into, and the largest
\* number of events files under events_np.
MaxFileFrames == 2
MaxFiles == 2
\* Largest number of records of an ATIS file.
MaxAtisRecords == 2
\* Largest number of packets of an aedat file and of events of one packet.
MaxPackets == 2
MaxPacketEvents == 1

VARIABLES
    events,     \* the Event Record handed to the function under study
    seg_l,      \* integrate_events_segment_to_frame: argument j_l
    seg_r,      \* integrate_events_segment_to_frame: argument j_r
    frame,      \* integrate_events_segment_to_frame: returned frame
    seg_pc,     \* "idle" | "call" | "returned"
    events_t,   \* cal_fixed_frames_number_segment_index: argument events_t
    split_by,   \* cal_fixed_frames_number_segment_index: argument split_by
    frames_num, \* cal_fixed_frames_number_segment_index: argument frames_num
    plan,       \* its outcome: [status, j_l, j_r]
    plan_pc,    \* "idle" | "call" | "done"
    duration,   \* integrate_events_by_fixed_duration: argument duration
    left,       \* its local left
    right,      \* its local right
    t_l,        \* its local t_l
    bins,       \* the ranges [left, right) it has integrated, in call order
    bin_pc,     \* "idle" | "anchor" | "extend" | "integrate" | "returned" | "IndexError"
    max_frames_number,  \* PadFrames: self.max_frames_number
    pad_in,     \* the frames first given to PadFrames.__call__
    pad_out,    \* what the last call returned
    pad_calls,  \* how many times the padder was applied, each time to the last result
    fs,         \* dataset root: the directories that exist
    npy,        \* the number saved in duration_<d>/max_frames_number.npy (None: no file)
    cfg,        \* NeuromorphicDatasetFolder.__init__: its arguments
    ds,         \* the dataset class: downloadable(), and the state of its inputs
    io,         \* the writes and transfers the constructor has started, in order
    self_max_frames_number,     \* self.max_frames_number (None until assigned)
    future_list,        \* the futures of the submitted conversions, in submission order
    future_idx,         \* how many futures the loop over future_list has read
    frames_np_files,    \* the frames files saved under frames_np_root: <<file, T>>
    ctor_pc,    \* the constructor's position, or how it ended
    raw_data,   \* load_ATIS_bin: the bytes of the file
    atis,       \* load_ATIS_bin: the returned dict
    atis_pc,    \* "idle" | "call" | "returned"
    bin_f,      \* load_aedat_v3: the bytes of the file after its ascii header
    bin_pos,    \* load_aedat_v3: the position of bin_f, counted from there
    header,     \* load_aedat_v3: the packet header read last
    pkt_data,   \* load_aedat_v3: data, the event bytes of that packet
    counter,    \* load_aedat_v3: counter, the offset of the next event in data
    txyp,       \* load_aedat_v3: the four lists of decoded events
    packets,    \* load_aedat_v3: the packets the file was written from
    aedat_pc    \* "idle" | "header" | "events" | "returned" | "struct.error"

segVars == <<seg_l, seg_r, frame, seg_pc>>
planVars == <<events_t, split_by, frames_num, plan, plan_pc>>
binVars == <<duration, left, right, t_l, bins, bin_pc>>
padVars == <<max_frames_number, pad_in, pad_out, pad_calls>>
ctorVars == <<fs, npy, cfg, ds, io, self_max_frames_number, future_list, future_idx,
              frames_np_files, ctor_pc>>
loadVars == <<raw_data, atis, atis_pc, bin_f, bin_pos, header, pkt_data, counter, txyp,
              packets, aedat_pc>>
vars == <<events, segVars, planVars, binVars, padVars, ctorVars, loadVars>>

\* Python's None where an integer is expected (frames_number: int = None)
None == -1

\* ------------------------------------------------------------ numpy helpers
Min(a, b) == IF a < b THEN a ELSE b
Max(a, b) == IF a > b THEN a ELSE b

\* ndarray.size of a one-dimensional array
Size(a) == Cardinality(DOMAIN a)

EmptyArray == [i \in {} |-> 0]

\* list.append / concatenation of one element
Push(a, v) == [i \in 0..Size(a) |-> IF i < Size(a) THEN a[i] ELSE v]

\* a position of a slice bound inside an array of length n (negative bounds
\* count from the end, bounds beyond the array are clipped)
SliceBound(k, n) == IF k < 0 THEN Max(k + n, 0) ELSE Min(k, n)

\* the slice j_r bound that leaks one element past the segment
SliceInclusive(a, l, r) ==
    LET lo == SliceBound(l, Size(a))
        hi == Min(SliceBound(r, Size(a)) + 1, Size(a))
    IN  [i \in 0..(hi - lo - 1) |-> a[lo + i]]

\* a[l:r]
Slice(a, l, r) ==
    LET lo == SliceBound(l, Size(a))
        hi == SliceBound(r, Size(a))
    IN  [i \in 0..(hi - lo - 1) |-> a[lo + i]]

\* a[mask] for a boolean mask of the same length: the selected elements in order
RECURSIVE MaskPrefix(_, _, _)
MaskPrefix(a, mask, n) ==
    IF n = 0 THEN EmptyArray
    ELSE LET rest == MaskPrefix(a, mask, n - 1)
         IN  IF mask[n - 1] THEN Push(rest, a[n - 1]) ELSE rest

MaskSelect(a, mask) == MaskPrefix(a, mask, Size(a))

\* the largest element of a non-empty array of naturals
ArrayMax(a) == CHOOSE m \in {a[i] : i \in DOMAIN a} : \A i \in DOMAIN a : a[i] <= m

\* what frame[c][position] += 1 does with repeated positions: each written once
ScatterAssign(position) ==
    LET n == IF Size(position) = 0 THEN 0 ELSE ArrayMax(position) + 1
    IN  [k \in 0..(n - 1) |-> IF \E i \in DOMAIN position : position[i] = k THEN 1 ELSE 0]

\* np.bincount(position): entry k counts the occurrences of k, length max + 1
BinCount(position) ==
    LET n == IF Size(position) = 0 THEN 0 ELSE ArrayMax(position) + 1
    IN  [k \in 0..(n - 1) |-> Cardinality({i \in DOMAIN position : position[i] = k})]

\* ------------------------------------------------------- Frame Integrator
\* mask[0] = (p == 0); mask[1] = logical_not(mask[0])
PolarityMask(p, c) == [i \in DOMAIN p |-> IF c = 0 THEN p[i] = 0 ELSE p[i] # 0]

\* one channel of the flattened frame: zeros, then += bincount on its prefix
FlatChannel(x, y, p, c, h, w) ==
    LET mask == PolarityMask(p, c)
        xs == MaskSelect(x, mask)
        ys == MaskSelect(y, mask)
        position == [i \in DOMAIN xs |-> ys[i] * w + xs[i]]
        events_number_per_pos == BinCount(position)
    IN  [k \in 0..(h * w - 1) |->
            IF k < Size(events_number_per_pos) THEN events_number_per_pos[k] ELSE 0]

\* the frame [2, H, W] integrated from the events with index in [j_l, j_r)
integrate_events_segment_to_frame(ev, h, w, j_l, j_r) ==
    LET x == Slice(ev.x, j_l, j_r)
        y == Slice(ev.y, j_l, j_r)
        p == Slice(ev.p, j_l, j_r)
    IN  [c \in 0..1 |-> [yy \in 0..(h - 1) |-> [xx \in 0..(w - 1) |->
            FlatChannel(x, y, p, c, h, w)[yy * w + xx]]]]

\* --------------------------------------------------- Segmentation Planner
Raised(err) == [status |-> err, j_l |-> EmptyArray, j_r |-> EmptyArray]
Returned(jl, jr) == [status |-> "returned", j_l |-> jl, j_r |-> jr]

\* a[-1] = v on an array that is not empty
SetLast(a, v) == [a EXCEPT ![Size(a) - 1] = v]

\* the 'number' branch that forgets j_r[-1] = N
PlanByNumberNoRemainder(t, k) ==
    LET N == Size(t)
    IN  IF k = 0 THEN Raised("ZeroDivisionError")
        ELSE LET di == N \div k
                 jl == [i \in 0..(k - 1) |-> i * di]
                 jr == [i \in 0..(k - 1) |-> jl[i] + di]
             IN  Returned(jl, jr)

\* split_by == 'number': di = N // frames_num, j_l[i] = i * di,
\* j_r[i] = j_l[i] + di, then j_r[-1] = N
PlanByNumber(t, k) ==
    LET N == Size(t)
    IN  IF k = 0 THEN Raised("ZeroDivisionError")
        ELSE LET di == N \div k
                 jl == [i \in 0..(k - 1) |-> i * di]
                 jr == [i \in 0..(k - 1) |-> jl[i] + di]
             IN  Returned(jl, SetLast(jr, N))

\* idx[mask] of window i: the indices with t_l <= t < t_r
WindowIdx(t, dt, i) ==
    LET lo == dt * i + t[0]
        hi == lo + dt
    IN  {j \in DOMAIN t : t[j] >= lo /\ t[j] < hi}

SetMin(S) == CHOOSE m \in S : \A j \in S : m <= j
SetMax(S) == CHOOSE m \in S : \A j \in S : j <= m

\* the 'time' branch that forgets j_r[-1] = N
PlanByTimeNoRemainder(t, k) ==
    LET N == Size(t)
    IN  IF N = 0 THEN Raised("IndexError")
        ELSE LET dt == IF k = 0 THEN 0 ELSE (t[N - 1] - t[0]) \div k
             IN  IF \E i \in 0..(k - 1) : WindowIdx(t, dt, i) = {}
                 THEN Raised("IndexError")
                 ELSE IF k = 0 THEN Raised("IndexError")
                 ELSE Returned([i \in 0..(k - 1) |-> SetMin(WindowIdx(t, dt, i))],
                               [i \in 0..(k - 1) |-> SetMax(WindowIdx(t, dt, i)) + 1])

\* the 'time' branch that gives a window without events the empty range [0, 0)
PlanByTimeEmptyWindows(t, k) ==
    LET N == Size(t)
    IN  IF N = 0 THEN Raised("IndexError")
        ELSE LET dt == IF k = 0 THEN 0 ELSE (t[N - 1] - t[0]) \div k
                 lo(i) == IF WindowIdx(t, dt, i) = {} THEN 0 ELSE SetMin(WindowIdx(t, dt, i))
                 hi(i) == IF WindowIdx(t, dt, i) = {} THEN 0 ELSE SetMax(WindowIdx(t, dt, i)) + 1
             IN  IF k = 0 THEN Raised("IndexError")
                 ELSE Returned([i \in 0..(k - 1) |-> lo(i)],
                               SetLast([i \in 0..(k - 1) |-> hi(i)], N))

\* split_by == 'time': dt = (t[-1] - t[0]) // frames_num; window i takes
\* idx_masked[0] and idx_masked[-1] + 1 (an IndexError when the window holds
\* no event); then j_r[-1] = N (an IndexError when frames_num is 0)
PlanByTime(t, k) ==
    LET N == Size(t)
    IN  IF N = 0 THEN Raised("IndexError")
        ELSE LET dt == IF k = 0 THEN 0 ELSE (t[N - 1] - t[0]) \div k
             IN  IF \E i \in 0..(k - 1) : WindowIdx(t, dt, i) = {}
                 THEN Raised("IndexError")
                 ELSE IF k = 0 THEN Raised("IndexError")
                 ELSE Returned([i \in 0..(k - 1) |-> SetMin(WindowIdx(t, dt, i))],
                               SetLast([i \in 0..(k - 1) |-> SetMax(WindowIdx(t, dt, i)) + 1], N))

\* the dispatch that treats every unknown split_by as 'number'
PlanDefaultsToNumber(t, by, k) ==
    IF by = "time" THEN PlanByTime(t, k) ELSE PlanByNumber(t, k)

\* j_l and j_r are allocated with frames_num entries (frames_num >= 0), then
\* split_by selects the branch; any other value raises NotImplementedError
cal_fixed_frames_number_segment_index(t, by, k) ==
    IF by = "number" THEN PlanByNumber(t, k)
    ELSE IF by = "time" THEN PlanByTime(t, k)
    ELSE Raised("NotImplementedError")

\* ------------------------------------------------------------ Frame Padder
\* A four-dimensional ndarray [T, 2, H, W]: its shape and its T frames.
Array4(shape, data) == [shape |-> shape, data |-> data]
NoArray4 == Array4(<<0, 0, 0, 0>>, EmptyArray)

\* np.zeros([n, c, h, w])
Zeros4(n, c, h, w) ==
    Array4(<<n, c, h, w>>,
           [i \in 0..(n - 1) |->
               [cc \in 0..(c - 1) |-> [yy \in 0..(h - 1) |-> [xx \in 0..(w - 1) |-> 0]]]])

\* np.concatenate((a, b), 0)
Concatenate0(a, b) ==
    Array4(<<a.shape[1] + b.shape[1], a.shape[2], a.shape[3], a.shape[4]>>,
           [i \in 0..(a.shape[1] + b.shape[1] - 1) |->
               IF i < a.shape[1] THEN a.data[i] ELSE b.data[i - a.shape[1]]])

\* a padder that also cuts a longer sequence down to max_frames_number
PadFramesTruncating(max, f) ==
    LET N == f.shape[1]
    IN  IF N < max
        THEN Concatenate0(f, Zeros4(max - N, f.shape[2], f.shape[3], f.shape[4]))
        ELSE Array4(<<max, f.shape[2], f.shape[3], f.shape[4]>>,
                    [i \in 0..(max - 1) |-> f.data[i]])

\* PadFrames(max_frames_number).__call__(frames)
PadFrames(max, f) ==
    LET N == f.shape[1]
    IN  IF N < max
        THEN Concatenate0(f, Zeros4(max - N, f.shape[2], f.shape[3], f.shape[4]))
        ELSE f

\* ------------------------------------------------------------ Event Records
\* One event <<t, x, y, p>> with the coordinates in range and p in {0, 1}.
Pixels == (0..(W - 1)) \X (0..(H - 1)) \X (0..1)

\* the Event Record whose i-th event has timestamp ts[i] and pixel px[i]
EventRecord(ts, px) ==
    [t |-> ts,
     x |-> [i \in DOMAIN px |-> px[i][1]],
     y |-> [i \in DOMAIN px |-> px[i][2]],
     p |-> [i \in DOMAIN px |-> px[i][3]]]

NoEvents == EventRecord(EmptyArray, EmptyArray)
NoFrame == <<>>

\* the variables of a function that a specification does not run
SegIdle ==
    /\ seg_l = 0
    /\ seg_r = 0
    /\ frame = NoFrame
    /\ seg_pc = "idle"

BinIdle ==
    /\ duration = 1
    /\ left = 0
    /\ right = 0
    /\ t_l = 0
    /\ bins = EmptyArray
    /\ bin_pc = "idle"

PadIdle ==
    /\ max_frames_number = 0
    /\ pad_in = NoArray4
    /\ pad_out = NoArray4
    /\ pad_calls = 0

CtorIdle ==
    /\ fs = {}
    /\ npy = None
    /\ cfg = [data_type |-> "event", frames_number |-> None, split_by |-> "None",
              duration |-> None]
    /\ ds = [downloadable |-> TRUE, files |-> "ok", event_files |-> 0]
    /\ io = <<>>
    /\ self_max_frames_number = None
    /\ future_list = EmptyArray
    /\ future_idx = 0
    /\ frames_np_files = {}
    /\ ctor_pc = "idle"

LoadIdle ==
    /\ raw_data = EmptyArray
    /\ atis = NoEvents
    /\ atis_pc = "idle"
    /\ bin_f = EmptyArray
    /\ bin_pos = 0
    /\ header = EmptyArray
    /\ pkt_data = EmptyArray
    /\ counter = 0
    /\ txyp = NoEvents
    /\ packets = EmptyArray
    /\ aedat_pc = "idle"

PlanIdle ==
    /\ events_t = EmptyArray
    /\ split_by = "number"
    /\ frames_num = 1
    /\ plan = Raised("none")
    /\ plan_pc = "idle"

\* ----------------------------------------- specification: segment integrator
SegInputs ==
    UNION {{EventRecord([i \in 0..(n - 1) |-> i], px) : px \in [0..(n - 1) -> Pixels]}
           : n \in 0..MaxSegEvents}

SegInit ==
    /\ events \in SegInputs
    /\ seg_l \in 0..Size(events.t)
    /\ seg_r \in seg_l..Size(events.t)
    /\ frame = NoFrame
    /\ seg_pc = "call"
    /\ PlanIdle
    /\ BinIdle
    /\ PadIdle
    /\ CtorIdle
    /\ LoadIdle

IntegrateSegment ==
    /\ seg_pc = "call"
    /\ frame' = integrate_events_segment_to_frame(events, H, W, seg_l, seg_r)
    /\ seg_pc' = "returned"
    /\ UNCHANGED <<events, seg_l, seg_r, planVars, binVars, padVars, ctorVars, loadVars>>

SegNext == IntegrateSegment

SpecSegment == SegInit /\ [][SegNext]_vars

\* -------------------------------------- specification: segmentation planner
\* the non-decreasing timestamp arrays of length n over 0..MaxPlanTime
SortedArrays(n, tmax) ==
    {a \in [0..(n - 1) -> 0..tmax] : \A i \in 1..(n - 1) : a[i - 1] <= a[i]}

SplitByValues == {"number", "time", "event", ""}

PlanInit ==
    /\ events_t \in UNION {SortedArrays(n, MaxPlanTime) : n \in 0..MaxPlanEvents}
    /\ split_by \in SplitByValues
    /\ frames_num \in 0..MaxFramesNum
    /\ plan = Raised("none")
    /\ plan_pc = "call"
    /\ events = NoEvents
    /\ SegIdle
    /\ BinIdle
    /\ PadIdle
    /\ CtorIdle
    /\ LoadIdle

PlanSegments ==
    /\ plan_pc = "call"
    /\ plan' = cal_fixed_frames_number_segment_index(events_t, split_by, frames_num)
    /\ plan_pc' = "done"
    /\ UNCHANGED <<events_t, split_by, frames_num, events, segVars, binVars, padVars, ctorVars, loadVars>>

PlanNext == PlanSegments

SpecPlanner == PlanInit /\ [][PlanNext]_vars

\* ------------------------------------------ specification: duration binner
\* the pixels the binned events fall on: two opposite corners, one per polarity
BinPixels == {<<0, 0, 0>>, <<W - 1, H - 1, 1>>}

BinInputs ==
    UNION {{EventRecord(ts, px) : ts \in SortedArrays(n, MaxBinTime),
                                  px \in [0..(n - 1) -> BinPixels]}
           : n \in 0..MaxBinEvents}

BinInit ==
    /\ events \in BinInputs
    /\ duration \in 1..MaxDuration
    /\ left = 0
    /\ right = 0
    /\ t_l = 0
    /\ bins = EmptyArray
    /\ bin_pc = "anchor"
    /\ SegIdle
    /\ PlanIdle
    /\ PadIdle
    /\ CtorIdle
    /\ LoadIdle

\* the exit test of the inner loop with >= for >
BinBreakAtDuration(t, tl, r, d) == r = Size(t) \/ t[r] - tl >= d

\* if right == N or t[right] - t_l > duration: break
BinBreak(t, tl, r, d) == r = Size(t) \/ t[r] - tl > d

\* t_l = t[left]; an index beyond the array raises IndexError
BinAnchor ==
    /\ bin_pc = "anchor"
    /\ IF left < Size(events.t)
       THEN /\ t_l' = events.t[left]
            /\ bin_pc' = "extend"
       ELSE /\ bin_pc' = "IndexError"
            /\ UNCHANGED t_l
    /\ UNCHANGED <<events, duration, left, right, bins, segVars, planVars, padVars, ctorVars, loadVars>>

\* one turn of the inner loop: right += 1, or break
BinExtend ==
    /\ bin_pc = "extend"
    /\ IF BinBreak(events.t, t_l, right, duration)
       THEN /\ bin_pc' = "integrate"
            /\ UNCHANGED right
       ELSE /\ right' = right + 1
            /\ UNCHANGED bin_pc
    /\ UNCHANGED <<events, duration, left, t_l, bins, segVars, planVars, padVars, ctorVars, loadVars>>

\* the outer loop that tests right == N before it integrates [left, right)
BinIntegrateAfterExit ==
    /\ bin_pc = "integrate"
    /\ IF right = Size(events.t)
       THEN /\ bin_pc' = "returned"
            /\ UNCHANGED <<bins, left>>
       ELSE /\ bins' = Push(bins, <<left, right>>)
            /\ left' = right
            /\ bin_pc' = "anchor"
    /\ UNCHANGED <<events, duration, right, t_l, segVars, planVars, padVars, ctorVars, loadVars>>

\* frames.append(integrate_events_segment_to_frame(events, H, W, left, right));
\* left = right; return np.concatenate(frames) when right == N
BinIntegrate ==
    /\ bin_pc = "integrate"
    /\ bins' = Push(bins, <<left, right>>)
    /\ left' = right
    /\ bin_pc' = IF right = Size(events.t) THEN "returned" ELSE "anchor"
    /\ UNCHANGED <<events, duration, right, t_l, segVars, planVars, padVars, ctorVars, loadVars>>

\* the list frames: the Event Record is never written and the integrator is a
\* pure function, so the frame appended by the i-th call is the integral of
\* the i-th range
frames ==
    [i \in DOMAIN bins |->
        integrate_events_segment_to_frame(events, H, W, bins[i][1], bins[i][2])]

BinNext == BinAnchor \/ BinExtend \/ BinIntegrate

SpecBinner == BinInit /\ [][BinNext]_vars

\* the loop runs on: no step of it waits for anything
FairSpecBinner == SpecBinner /\ WF_vars(BinNext)

\* ----------------------------------------------- specification: frame padder
\* the frames a padded sequence is made of: an empty one and two with events
PadFramePool ==
    {integrate_events_segment_to_frame(EventRecord([i \in DOMAIN px |-> i], px), H, W, 0, Size(px)) :
        px \in {EmptyArray,
                [i \in 0..0 |-> <<0, 0, 0>>],
                [i \in 0..1 |-> <<W - 1, H - 1, 1>>]}}

PadInputs ==
    UNION {{Array4(<<n, 2, H, W>>, data) : data \in [0..(n - 1) -> PadFramePool]}
           : n \in 0..MaxPadFrames}

PadInit ==
    /\ max_frames_number \in 0..MaxPadTarget
    /\ pad_in \in PadInputs
    /\ pad_out = NoArray4
    /\ pad_calls = 0
    /\ events = NoEvents
    /\ SegIdle
    /\ PlanIdle
    /\ BinIdle
    /\ CtorIdle
    /\ LoadIdle

\* the transform applied to a sample, then once more to what it returned
PadCall ==
    /\ pad_calls < 2
    /\ pad_out' = PadFrames(max_frames_number, IF pad_calls = 0 THEN pad_in ELSE pad_out)
    /\ pad_calls' = pad_calls + 1
    /\ UNCHANGED <<max_frames_number, pad_in, events, segVars, planVars, binVars, ctorVars, loadVars>>

PadNext == PadCall

SpecPad == PadInit /\ [][PadNext]_vars

\* ------------------------------------- specification: dataset constructor
\* The directories of the dataset root the constructor looks at.  The
\* directory of the requested frames is "frames_number" or "duration",
\* whatever the numbers in its name.
RootEntries == {"download", "extract", "events_np", "frames_number", "duration"}

\* The dataset: whether it can be downloaded, the state of the downloaded
\* files, and how many events files os.walk(events_np_root) yields.
Datasets ==
    [downloadable : BOOLEAN, files : {"ok", "corrupted", "missing"},
     event_files : 0..MaxFiles]

\* The arguments of the constructor.
CtorConfigs ==
    [data_type : {"event", "frame", "image"},
     frames_number : {None, 0, 2},
     split_by : {"None", "number"},
     duration : {None, 0, 1}]

\* a future of the pool: submitted and not finished, finished with the value
\* its function returned, or finished with the exception it raised
PendingFuture == [state |-> "pending", result |-> None]
ReturnedFuture(r) == [state |-> "returned", result |-> r]
RaisedFuture == [state |-> "raised", result |-> None]

\* tpe.submit(...) for every events file, in the order of os.walk
SubmitAll(n) == [f \in 0..(n - 1) |-> PendingFuture]

CtorInit ==
    /\ fs \in SUBSET RootEntries
    /\ npy \in IF "duration" \in fs THEN {None} \cup (0..MaxFileFrames) ELSE {None}
    /\ cfg \in CtorConfigs
    /\ ds \in Datasets
    /\ io = <<>>
    /\ self_max_frames_number = None
    /\ future_list = EmptyArray
    /\ future_idx = 0
    /\ frames_np_files = {}
    /\ ctor_pc = "start"
    /\ events = NoEvents
    /\ SegIdle
    /\ PlanIdle
    /\ BinIdle
    /\ PadIdle
    /\ LoadIdle

CtorOthers == <<events, segVars, planVars, binVars, padVars, loadVars>>
CtorPool == <<future_list, future_idx, frames_np_files>>

\* if not os.path.exists(events_np_root): the download root is checked or made
\* and filled, or the dataset cannot be downloaded
CtorDownload ==
    /\ ctor_pc = "start"
    /\ IF "events_np" \in fs
       THEN /\ ctor_pc' = "select"
            /\ UNCHANGED <<fs, io>>
       ELSE IF "download" \in fs
            THEN IF ds.files = "ok"
                 THEN /\ ctor_pc' = "extract"
                      /\ UNCHANGED <<fs, io>>
                 ELSE /\ UNCHANGED fs
                      /\ io' = io \o (IF ds.files = "corrupted" THEN <<"remove">> ELSE <<>>)
                                  \o (IF ds.downloadable THEN <<"download">> ELSE <<>>)
                      /\ ctor_pc' = IF ds.downloadable THEN "extract"
                                    ELSE "NotImplementedError"
            ELSE /\ fs' = fs \cup {"download"}
                 /\ IF ds.downloadable
                    THEN /\ io' = io \o <<"mkdir download", "download">>
                         /\ ctor_pc' = "extract"
                    ELSE /\ io' = Append(io, "mkdir download")
                         /\ ctor_pc' = "NotImplementedError"
    /\ UNCHANGED <<npy, cfg, ds, self_max_frames_number, CtorPool, CtorOthers>>

\* the extract root is made and filled unless it exists
CtorExtract ==
    /\ ctor_pc = "extract"
    /\ IF "extract" \in fs
       THEN UNCHANGED <<fs, io>>
       ELSE /\ fs' = fs \cup {"extract"}
            /\ io' = io \o <<"mkdir extract", "extract">>
    /\ ctor_pc' = "events"
    /\ UNCHANGED <<npy, cfg, ds, self_max_frames_number, CtorPool, CtorOthers>>

\* os.mkdir(events_np_root); self.create_events_np_files(...)
CtorCreateEventsNp ==
    /\ ctor_pc = "events"
    /\ fs' = fs \cup {"events_np"}
    /\ io' = io \o <<"mkdir events_np", "create_events_np_files">>
    /\ ctor_pc' = "select"
    /\ UNCHANGED <<npy, cfg, ds, self_max_frames_number, CtorPool, CtorOthers>>

\* data_type == 'event'
CtorEvent ==
    /\ ctor_pc = "select"
    /\ cfg.data_type = "event"
    /\ ctor_pc' = "finish"
    /\ UNCHANGED <<fs, npy, io, cfg, ds, self_max_frames_number, CtorPool, CtorOthers>>

\* data_type == 'frame' and frames_number is not None: unless the frames
\* directory exists it is made, the pool is entered and every events file
\* submitted to it; the futures are not kept
CtorFramesNumber ==
    /\ ctor_pc = "select"
    /\ cfg.data_type = "frame"
    /\ cfg.frames_number # None
    /\ IF ~(cfg.frames_number > 0) \/ cfg.split_by \notin {"time", "number"}
       THEN /\ ctor_pc' = "AssertionError"
            /\ UNCHANGED <<fs, io, future_list>>
       ELSE IF "frames_number" \in fs
            THEN /\ ctor_pc' = "finish"
                 /\ UNCHANGED <<fs, io, future_list>>
            ELSE /\ fs' = fs \cup {"frames_number"}
                 /\ io' = io \o <<"mkdir frames_number", "integrate files">>
                 /\ future_list' = SubmitAll(ds.event_files)
                 /\ ctor_pc' = "pool"
    /\ UNCHANGED <<npy, cfg, ds, self_max_frames_number, future_idx, frames_np_files,
                   CtorOthers>>

\* data_type == 'frame', frames_number is None and duration is not None:
\* max_frames_number is 0, then loaded from max_frames_number.npy of an
\* existing directory; or the directory is made, the pool entered and every
\* events file submitted to it, the futures kept in future_list
CtorDuration ==
    /\ ctor_pc = "select"
    /\ cfg.data_type = "frame"
    /\ cfg.frames_number = None
    /\ cfg.duration # None
    /\ IF ~(cfg.duration > 0)
       THEN /\ ctor_pc' = "AssertionError"
            /\ self_max_frames_number' = 0
            /\ UNCHANGED <<fs, io, future_list>>
       ELSE IF "duration" \in fs
            THEN /\ UNCHANGED <<fs, io, future_list>>
                 /\ IF npy # None
                    THEN /\ self_max_frames_number' = npy
                         /\ ctor_pc' = "finish"
                    ELSE /\ self_max_frames_number' = 0
                         /\ ctor_pc' = "FileNotFoundError"
            ELSE /\ fs' = fs \cup {"duration"}
                 /\ io' = io \o <<"mkdir duration", "integrate files">>
                 /\ self_max_frames_number' = 0
                 /\ future_list' = SubmitAll(ds.event_files)
                 /\ ctor_pc' = "pool"
    /\ UNCHANGED <<npy, cfg, ds, future_idx, frames_np_files, CtorOthers>>

\* the frame counts a conversion can return: frames_num frames by fixed
\* frames number, at least one frame by fixed duration
FrameCounts ==
    IF cfg.frames_number # None THEN {cfg.frames_number} ELSE 1..MaxFileFrames

\* a worker thread runs one submitted conversion to its end: the conversion
\* raises, or it saves the frames file and returns (the frame count by fixed
\* duration, None by fixed frames number)
WorkerRun ==
    /\ ctor_pc = "pool"
    /\ \E f \in DOMAIN future_list :
          /\ future_list[f].state = "pending"
          /\ \E raises \in BOOLEAN, T \in FrameCounts :
                IF raises
                THEN /\ future_list' = [future_list EXCEPT ![f] = RaisedFuture]
                     /\ UNCHANGED frames_np_files
                ELSE /\ future_list' =
                           [future_list EXCEPT ![f] =
                               ReturnedFuture(IF cfg.frames_number # None THEN None ELSE T)]
                     /\ frames_np_files' = frames_np_files \cup {<<f, T>>}
    /\ UNCHANGED <<fs, npy, io, cfg, ds, self_max_frames_number, future_idx, ctor_pc,
                   CtorOthers>>

\* the end of the with block: ThreadPoolExecutor.__exit__ waits for every
\* submitted future; nothing more is done by fixed frames number
CtorJoin ==
    /\ ctor_pc = "pool"
    /\ \A f \in DOMAIN future_list : future_list[f].state # "pending"
    /\ ctor_pc' = IF cfg.frames_number # None THEN "finish" ELSE "results"
    /\ UNCHANGED <<fs, npy, io, cfg, ds, self_max_frames_number, CtorPool, CtorOthers>>

\* the loop over future_list that keeps the result read last
CtorResultLast ==
    /\ ctor_pc = "results"
    /\ future_idx < Size(future_list)
    /\ IF future_list[future_idx].state = "raised"
       THEN /\ ctor_pc' = "ConversionError"
            /\ UNCHANGED <<self_max_frames_number, future_idx>>
       ELSE /\ self_max_frames_number' = future_list[future_idx].result
            /\ future_idx' = future_idx + 1
            /\ UNCHANGED ctor_pc
    /\ UNCHANGED <<fs, npy, io, cfg, ds, future_list, frames_np_files, CtorOthers>>

\* one turn of the loop over future_list:
\* self.max_frames_number = max(self.max_frames_number, future.result()),
\* where result() raises what the conversion raised
CtorResult ==
    /\ ctor_pc = "results"
    /\ future_idx < Size(future_list)
    /\ IF future_list[future_idx].state = "raised"
       THEN /\ ctor_pc' = "ConversionError"
            /\ UNCHANGED <<self_max_frames_number, future_idx>>
       ELSE /\ self_max_frames_number' =
                   Max(self_max_frames_number, future_list[future_idx].result)
            /\ future_idx' = future_idx + 1
            /\ UNCHANGED ctor_pc
    /\ UNCHANGED <<fs, npy, io, cfg, ds, future_list, frames_np_files, CtorOthers>>

\* np.save(fn_name, self.max_frames_number) after the loop
CtorSave ==
    /\ ctor_pc = "results"
    /\ future_idx = Size(future_list)
    /\ npy' = self_max_frames_number
    /\ io' = Append(io, "save max_frames_number")
    /\ ctor_pc' = "finish"
    /\ UNCHANGED <<fs, cfg, ds, self_max_frames_number, CtorPool, CtorOthers>>

\* raise ValueError('frames_number and duration can not both be None.')
CtorNoFrameConfig ==
    /\ ctor_pc = "select"
    /\ cfg.data_type = "frame"
    /\ cfg.frames_number = None
    /\ cfg.duration = None
    /\ ctor_pc' = "ValueError"
    /\ UNCHANGED <<fs, npy, io, cfg, ds, self_max_frames_number, CtorPool, CtorOthers>>

\* any other data_type leaves _root unassigned
CtorUnknownType ==
    /\ ctor_pc = "select"
    /\ cfg.data_type \notin {"event", "frame"}
    /\ ctor_pc' = "UnboundLocalError"
    /\ UNCHANGED <<fs, npy, io, cfg, ds, self_max_frames_number, CtorPool, CtorOthers>>

\* super().__init__(root=_root, ...)
CtorFinish ==
    /\ ctor_pc = "finish"
    /\ ctor_pc' = "constructed"
    /\ UNCHANGED <<fs, npy, io, cfg, ds, self_max_frames_number, CtorPool, CtorOthers>>

CtorNext ==
    \/ CtorDownload
    \/ CtorExtract
    \/ CtorCreateEventsNp
    \/ CtorEvent
    \/ CtorFramesNumber
    \/ CtorDuration
    \/ WorkerRun
    \/ CtorJoin
    \/ CtorResult
    \/ CtorSave
    \/ CtorNoFrameConfig
    \/ CtorUnknownType
    \/ CtorFinish

SpecCtor == CtorInit /\ [][CtorNext]_vars

\* --------------------------- specification: constructor runs on one root
\* how a call of the constructor ends
CtorEnded ==
    {"constructed", "ValueError", "NotImplementedError", "AssertionError",
     "FileNotFoundError", "ConversionError", "UnboundLocalError"}

\* A root that holds no frames directory yet.
RunsInit ==
    /\ fs \in SUBSET {"download", "extract", "events_np"}
    /\ npy = None
    /\ cfg \in CtorConfigs
    /\ ds \in Datasets
    /\ io = <<>>
    /\ self_max_frames_number = None
    /\ future_list = EmptyArray
    /\ future_idx = 0
    /\ frames_np_files = {}
    /\ ctor_pc = "start"
    /\ events = NoEvents
    /\ SegIdle
    /\ PlanIdle
    /\ BinIdle
    /\ PadIdle
    /\ LoadIdle

\* the constructor is called again with the same arguments on the root the
\* earlier calls left
CtorRerun ==
    /\ ctor_pc \in CtorEnded
    /\ io' = <<>>
    /\ self_max_frames_number' = None
    /\ future_list' = EmptyArray
    /\ future_idx' = 0
    /\ ctor_pc' = "start"
    /\ UNCHANGED <<fs, npy, cfg, ds, frames_np_files, CtorOthers>>

RunsNext ==
    \/ CtorDownload
    \/ CtorExtract
    \/ CtorCreateEventsNp
    \/ CtorEvent
    \/ CtorFramesNumber
    \/ CtorDuration
    \/ WorkerRun
    \/ CtorJoin
    \/ CtorResult
    \/ CtorSave
    \/ CtorNoFrameConfig
    \/ CtorUnknownType
    \/ CtorFinish
    \/ CtorRerun

SpecRuns == RunsInit /\ [][RunsNext]_vars

\* ------------------------------------------------ specification: ATIS loader
\* a & b and a | b of two unsigned integers, bit by bit
RECURSIVE BitAnd(_, _)
BitAnd(a, b) ==
    IF a = 0 \/ b = 0 THEN 0
    ELSE (a % 2) * (b % 2) + 2 * BitAnd(a \div 2, b \div 2)

RECURSIVE BitOr(_, _)
BitOr(a, b) ==
    IF a = 0 THEN b
    ELSE IF b = 0 THEN a
    ELSE Max(a % 2, b % 2) + 2 * BitOr(a \div 2, b \div 2)

\* a << n and a >> n of np.uint32; a byte shifted by at most 16 stays below 2^24
ShiftLeft(a, n) == a * (2 ^ n)
ShiftRight(a, n) == a \div (2 ^ n)

\* raw_data[k::5]
Stride5(a, k) == [i \in 0..(((Size(a) - k + 4) \div 5) - 1) |-> a[k + 5 * i]]

\* the decoder that leaves the polarity bit in the timestamp
LoadAtisUnmasked(raw) ==
    LET rd_2__5 == Stride5(raw, 2)
        b3 == Stride5(raw, 3)
        b4 == Stride5(raw, 4)
    IN  [t |-> [i \in DOMAIN rd_2__5 |->
                   BitOr(BitOr(ShiftLeft(rd_2__5[i], 16), ShiftLeft(b3[i], 8)), b4[i])],
         x |-> Stride5(raw, 0),
         y |-> Stride5(raw, 1),
         p |-> [i \in DOMAIN rd_2__5 |-> ShiftRight(BitAnd(rd_2__5[i], 128), 7)]]

\* x = raw_data[0::5]; y = raw_data[1::5]; p = (raw_data[2::5] & 128) >> 7;
\* t = ((raw_data[2::5] & 127) << 16) | (raw_data[3::5] << 8) | raw_data[4::5],
\* on a file of whole records
load_ATIS_bin(raw) ==
    LET rd_2__5 == Stride5(raw, 2)
        b3 == Stride5(raw, 3)
        b4 == Stride5(raw, 4)
    IN  [t |-> [i \in DOMAIN rd_2__5 |->
                   BitOr(BitOr(ShiftLeft(BitAnd(rd_2__5[i], 127), 16), ShiftLeft(b3[i], 8)),
                         b4[i])],
         x |-> Stride5(raw, 0),
         y |-> Stride5(raw, 1),
         p |-> [i \in DOMAIN rd_2__5 |-> ShiftRight(BitAnd(rd_2__5[i], 128), 7)]]

\* The records of the ATIS files: the third byte over its edges, with four
\* settings of the other bytes.
AtisThirdBytes == {0, 5, 127, 128, 133, 255}
AtisOtherBytes == {<<10, 20, 0, 127>>, <<0, 0, 0, 0>>, <<255, 255, 255, 255>>, <<1, 2, 3, 4>>}
AtisRecords == {<<r[1], r[2], b2, r[3], r[4]>> : r \in AtisOtherBytes, b2 \in AtisThirdBytes}

\* the bytes of a file of n five-byte records
AtisFile(recs) == [i \in 0..(5 * Size(recs) - 1) |-> recs[i \div 5][(i % 5) + 1]]

AtisInputs ==
    UNION {{AtisFile(recs) : recs \in [0..(n - 1) -> AtisRecords]} : n \in 0..MaxAtisRecords}

\* the variables of load_aedat_v3, which this specification does not run
AedatIdle ==
    /\ bin_f = EmptyArray
    /\ bin_pos = 0
    /\ header = EmptyArray
    /\ pkt_data = EmptyArray
    /\ counter = 0
    /\ txyp = NoEvents
    /\ packets = EmptyArray
    /\ aedat_pc = "idle"

aedatVars == <<bin_f, bin_pos, header, pkt_data, counter, txyp, packets, aedat_pc>>
LoadOthers == <<events, segVars, planVars, binVars, padVars, ctorVars>>

AtisInit ==
    /\ raw_data \in AtisInputs
    /\ atis = NoEvents
    /\ atis_pc = "call"
    /\ AedatIdle
    /\ events = NoEvents
    /\ SegIdle
    /\ PlanIdle
    /\ BinIdle
    /\ PadIdle
    /\ CtorIdle

LoadAtis ==
    /\ atis_pc = "call"
    /\ atis' = load_ATIS_bin(raw_data)
    /\ atis_pc' = "returned"
    /\ UNCHANGED <<raw_data, aedatVars, LoadOthers>>

AtisNext == LoadAtis

SpecAtis == AtisInit /\ [][AtisNext]_vars

\* ----------------------------------------------- specification: aedat loader
\* A Python int, which has no width, is the set of the positions of its 1 bits.
ByteBits(b) == {k \in 0..7 : (b \div (2 ^ k)) % 2 = 1}

\* struct.unpack('I', b)[0] and struct.unpack('H', b)[0]: little-endian
UnpackBits(b) == UNION {{8 * i + k : k \in ByteBits(b[i])} : i \in DOMAIN b}

\* the number a set of bit positions below 31 stands for
RECURSIVE ToInt(_)
ToInt(S) ==
    IF S = {} THEN 0
    ELSE LET k == CHOOSE k \in S : TRUE
         IN  (2 ^ k) + ToInt(S \ {k})

\* v >> n, v << n and the constants 0x00007FFF and 0x00000001
ShiftRightBits(S, n) == {k - n : k \in {j \in S : j >= n}}
ShiftLeftBits(S, n) == {k + n : k \in S}
MaskBits(n) == 0..(n - 1)

\* the fields of a 28-byte packet header that the loader uses
e_type(h) == ToInt(UnpackBits(Slice(h, 0, 2)))
e_size(h) == ToInt(UnpackBits(Slice(h, 4, 8)))
e_tsoverflow(h) == UnpackBits(Slice(h, 12, 16))
e_capacity(h) == ToInt(UnpackBits(Slice(h, 16, 20)))

\* the event decoder that leaves e_tsoverflow out of the timestamp
DecodeEventLowTimestamp(d, c, ovf) ==
    LET aer_data == UnpackBits(Slice(d, c, c + 4))
    IN  [t |-> UnpackBits(Slice(d, c + 4, c + 8)),
         x |-> ToInt(ShiftRightBits(aer_data, 17) \cap MaskBits(15)),
         y |-> ToInt(ShiftRightBits(aer_data, 2) \cap MaskBits(15)),
         p |-> ToInt(ShiftRightBits(aer_data, 1) \cap MaskBits(1))]

\* aer_data, timestamp = low | e_tsoverflow << 31, x, y and pol of the event
\* at data[counter:]
DecodeEvent(d, c, ovf) ==
    LET aer_data == UnpackBits(Slice(d, c, c + 4))
    IN  [t |-> UnpackBits(Slice(d, c + 4, c + 8)) \cup ShiftLeftBits(ovf, 31),
         x |-> ToInt(ShiftRightBits(aer_data, 17) \cap MaskBits(15)),
         y |-> ToInt(ShiftRightBits(aer_data, 2) \cap MaskBits(15)),
         p |-> ToInt(ShiftRightBits(aer_data, 1) \cap MaskBits(1))]

\* txyp['x'].append(x), ... for one event
AppendEvent(lists, e) ==
    [t |-> Push(lists.t, e.t), x |-> Push(lists.x, e.x),
     y |-> Push(lists.y, e.y), p |-> Push(lists.p, e.p)]

\* The files.  An event is its eight bytes, the address word then the low
\* timestamp; a packet is its event type, its timestamp overflow and its
\* events, eight bytes each, with capacity = number = valid.
AedatEvents ==
    {<<1, 0, 254, 255, 255, 255, 255, 255>>,
     <<254, 255, 1, 0, 1, 0, 0, 0>>,
     <<15, 0, 10, 0, 16, 39, 0, 0>>}

SpecialEvent == <<1, 0, 0, 0, 7, 0, 0, 0>>

AedatPackets ==
    {[e_type |-> 1, overflow |-> o, events |-> evs] :
        o \in {0, 3},
        evs \in UNION {[0..(n - 1) -> AedatEvents] : n \in 0..MaxPacketEvents}}
    \cup {[e_type |-> 0, overflow |-> 0, events |-> [i \in 0..(n - 1) |-> SpecialEvent]] :
            n \in 0..MaxPacketEvents}

\* the n bytes of v, lowest first
LittleEndian(v, n) == [i \in 1..n |-> (v \div (256 ^ (i - 1))) % 256]

\* the 28 bytes of a packet's header, then its events
PacketBytes(pk) ==
    LET n == Size(pk.events)
    IN  LittleEndian(pk.e_type, 2) \o LittleEndian(0, 2) \o LittleEndian(8, 4)
        \o LittleEndian(4, 4) \o LittleEndian(pk.overflow, 4) \o LittleEndian(n, 4)
        \o LittleEndian(n, 4) \o LittleEndian(n, 4)
        \o [i \in 1..(8 * n) |-> pk.events[(i - 1) \div 8][((i - 1) % 8) + 1]]

RECURSIVE StreamBytes(_, _)
StreamBytes(pks, n) ==
    IF n = 0 THEN <<>> ELSE StreamBytes(pks, n - 1) \o PacketBytes(pks[n - 1])

\* the bytes that follow the line '#!END-HEADER\r\n' of the file
AedatFile(pks) ==
    LET s == StreamBytes(pks, Size(pks))
    IN  [i \in 0..(Len(s) - 1) |-> s[i + 1]]

AedatStreams == UNION {[0..(n - 1) -> AedatPackets] : n \in 0..MaxPackets}

AtisIdle ==
    /\ raw_data = EmptyArray
    /\ atis = NoEvents
    /\ atis_pc = "idle"

\* the file is read from the end of its ascii header
AedatStart ==
    /\ bin_pos = 0
    /\ header = EmptyArray
    /\ pkt_data = EmptyArray
    /\ counter = 0
    /\ txyp = NoEvents
    /\ aedat_pc = "header"
    /\ AtisIdle
    /\ events = NoEvents
    /\ SegIdle
    /\ PlanIdle
    /\ BinIdle
    /\ PadIdle
    /\ CtorIdle

\* a file of whole packets
AedatInit ==
    /\ packets \in AedatStreams
    /\ bin_f = AedatFile(packets)
    /\ AedatStart

\* a file cut off after any of its bytes
AedatCutInit ==
    /\ packets \in AedatStreams
    /\ LET whole == AedatFile(packets)
       IN  bin_f \in {Slice(whole, 0, cut) : cut \in 0..Size(whole)}
    /\ AedatStart

\* header = bin_f.read(28): the end of the file ends the loop and the lists
\* are returned; unpacking a field of a shorter header raises struct.error;
\* else data = bin_f.read(e_capacity * e_size), counter = 0
AedatReadHeader ==
    /\ aedat_pc = "header"
    /\ header' = Slice(bin_f, bin_pos, bin_pos + 28)
    /\ IF Size(header') = 0
       THEN /\ aedat_pc' = "returned"
            /\ UNCHANGED <<bin_pos, pkt_data, counter>>
       ELSE IF Size(header') < 28
            THEN /\ aedat_pc' = "struct.error"
                 /\ bin_pos' = bin_pos + Size(header')
                 /\ UNCHANGED <<pkt_data, counter>>
            ELSE /\ pkt_data' = Slice(bin_f, bin_pos + 28,
                                      bin_pos + 28 + e_capacity(header') * e_size(header'))
                 /\ bin_pos' = bin_pos + 28 + Size(pkt_data')
                 /\ counter' = 0
                 /\ aedat_pc' = IF e_type(header') = 1 THEN "events" ELSE "header"
    /\ UNCHANGED <<bin_f, txyp, packets, raw_data, atis, atis_pc, LoadOthers>>

\* one turn of while data[counter:counter + e_size]: the two words of the
\* event are unpacked (struct.error when one has fewer than four bytes), the
\* event appended and counter moved on by e_size
AedatDecodeEvent ==
    /\ aedat_pc = "events"
    /\ IF Size(Slice(pkt_data, counter, counter + e_size(header))) = 0
       THEN /\ aedat_pc' = "header"
            /\ UNCHANGED <<txyp, counter>>
       ELSE IF \/ Size(Slice(pkt_data, counter, counter + 4)) < 4
               \/ Size(Slice(pkt_data, counter + 4, counter + 8)) < 4
            THEN /\ aedat_pc' = "struct.error"
                 /\ UNCHANGED <<txyp, counter>>
            ELSE /\ txyp' = AppendEvent(txyp, DecodeEvent(pkt_data, counter,
                                                          e_tsoverflow(header)))
                 /\ counter' = counter + e_size(header)
                 /\ UNCHANGED aedat_pc
    /\ UNCHANGED <<bin_f, bin_pos, header, pkt_data, packets, raw_data, atis, atis_pc,
                   LoadOthers>>

AedatNext == AedatReadHeader \/ AedatDecodeEvent

SpecAedat == AedatInit /\ [][AedatNext]_vars

SpecAedatCut == AedatCutInit /\ [][AedatNext]_vars

\* ------------------------------------------------------------- claims C1, C2
\* the events of the segment [seg_l, seg_r) that fall on cell (c, y, x)
SegHits(c, yy, xx) ==
    {i \in seg_l..(seg_r - 1) :
        events.p[i] = c /\ events.y[i] = yy /\ events.x[i] = xx}

\* C1: after integrate_events_segment_to_frame returns, every cell
\* frame[c][y][x] equals the number of events i in [j_l, j_r) with
\* (p_i, y_i, x_i) = (c, y, x); k events on one cell give k, not 1.
C1_ExactMultiplicity ==
    seg_pc = "returned" =>
        \A c \in 0..1, yy \in 0..(H - 1), xx \in 0..(W - 1) :
            frame[c][yy][xx] = Cardinality(SegHits(c, yy, xx))

\* a returned frame with one cell hit by every event of a segment of two or more
C1_Witness ==
    /\ seg_pc = "returned"
    /\ seg_r - seg_l >= 2
    /\ \E c \in 0..1, yy \in 0..(H - 1), xx \in 0..(W - 1) :
          /\ Cardinality(SegHits(c, yy, xx)) = seg_r - seg_l
          /\ frame[c][yy][xx] = seg_r - seg_l

Cells == (0..1) \X (0..(H - 1)) \X (0..(W - 1))

RECURSIVE SumCells(_, _)
SumCells(f, cells) ==
    IF cells = {} THEN 0
    ELSE LET k == CHOOSE k \in cells : TRUE
         IN  f[k[1]][k[2]][k[3]] + SumCells(f, cells \ {k})

\* the total count of a frame
FrameSum(f) == SumCells(f, Cells)

IsFrame(f) ==
    /\ DOMAIN f = 0..1
    /\ \A c \in 0..1 :
          /\ DOMAIN f[c] = 0..(H - 1)
          /\ \A yy \in 0..(H - 1) :
                /\ DOMAIN f[c][yy] = 0..(W - 1)
                /\ \A xx \in 0..(W - 1) : f[c][yy][xx] \in Nat

ZeroFrame == [c \in 0..1 |-> [yy \in 0..(H - 1) |-> [xx \in 0..(W - 1) |-> 0]]]

\* C2: the returned frame has shape [2, H, W], non-negative integer cells and
\* a total of j_r - j_l; an empty segment gives the all-zero frame.
C2_ShapeAndTotal ==
    seg_pc = "returned" =>
        /\ IsFrame(frame)
        /\ FrameSum(frame) = seg_r - seg_l
        /\ (seg_l = seg_r => frame = ZeroFrame)

\* an empty segment in the middle of a non-empty record, integrated
C2_Witness ==
    /\ seg_pc = "returned"
    /\ seg_l = seg_r
    /\ seg_l > 0
    /\ seg_l < Size(events.t)
    /\ frame = ZeroFrame

\* ------------------------------------------------------------ claims C3, C4
PlanN == Size(events_t)

\* C3: split_by = 'number' with frames_num = k >= 1 and any N >= 0 returns
\* j_l[i] = i * (N // k); each of the first k - 1 segments holds N // k
\* events, the last one ends at N and holds N - (k - 1) * (N // k).
C3_NumberSplitExact ==
    (plan_pc = "done" /\ split_by = "number" /\ frames_num >= 1) =>
        LET k == frames_num
            di == PlanN \div k
        IN  /\ plan.status = "returned"
            /\ DOMAIN plan.j_l = 0..(k - 1)
            /\ DOMAIN plan.j_r = 0..(k - 1)
            /\ \A i \in 0..(k - 1) : plan.j_l[i] = i * di
            /\ \A i \in 0..(k - 2) : plan.j_r[i] - plan.j_l[i] = di
            /\ plan.j_r[k - 1] = PlanN
            /\ plan.j_r[k - 1] - plan.j_l[k - 1] = PlanN - (k - 1) * di

\* a returned 'number' plan of several frames whose last segment took a remainder
C3_Witness ==
    /\ plan_pc = "done"
    /\ split_by = "number"
    /\ frames_num >= 2
    /\ plan.status = "returned"
    /\ PlanN \div frames_num >= 1
    /\ plan.j_r[frames_num - 1] - plan.j_l[frames_num - 1] > PlanN \div frames_num

\* C4: split_by = 'time' on non-decreasing timestamps with frames_num >= 1:
\* whenever the planner returns, j_l[0] = 0, j_r[i] = j_l[i + 1],
\* j_l[i] <= j_r[i] and j_r[frames_num - 1] = N.
C4_TimeSplitContiguous ==
    (plan_pc = "done" /\ split_by = "time" /\ frames_num >= 1
        /\ plan.status = "returned") =>
        LET k == frames_num
        IN  /\ DOMAIN plan.j_l = 0..(k - 1)
            /\ DOMAIN plan.j_r = 0..(k - 1)
            /\ plan.j_l[0] = 0
            /\ \A i \in 0..(k - 2) : plan.j_r[i] = plan.j_l[i + 1]
            /\ \A i \in 0..(k - 1) : plan.j_l[i] <= plan.j_r[i]
            /\ plan.j_r[k - 1] = PlanN

\* a returned 'time' plan of several frames with an event at or after
\* t[0] + dt * frames_num, which only the forced right bound keeps
C4_Witness ==
    /\ plan_pc = "done"
    /\ split_by = "time"
    /\ frames_num >= 2
    /\ plan.status = "returned"
    /\ LET dt == (events_t[PlanN - 1] - events_t[0]) \div frames_num
       IN  events_t[PlanN - 1] >= events_t[0] + dt * frames_num

\* C9: every split_by other than 'time' and 'number' ends in
\* NotImplementedError, whatever the timestamps and frames_num, and no index
\* ranges are returned.
C9_UnsupportedSplitBy ==
    (plan_pc = "done" /\ split_by \notin {"time", "number"}) =>
        /\ plan.status = "NotImplementedError"
        /\ plan.j_l = EmptyArray
        /\ plan.j_r = EmptyArray

\* an unsupported split_by refused on a non-empty timestamp array
C9_Witness ==
    /\ plan_pc = "done"
    /\ split_by = "event"
    /\ PlanN > 0
    /\ frames_num >= 1
    /\ plan.status = "NotImplementedError"

\* -------------------------------------------------------- claims C5, C6, C7
BinN == Size(events.t)

RECURSIVE SumFrames(_, _)
SumFrames(fr, n) == IF n = 0 THEN 0 ELSE FrameSum(fr[n - 1]) + SumFrames(fr, n - 1)

\* the ranges integrated so far are non-empty, start at 0 and follow one another
BinsChained ==
    /\ \A i \in DOMAIN bins : bins[i][1] < bins[i][2]
    /\ Size(bins) > 0 => bins[0][1] = 0
    /\ \A i \in 1..(Size(bins) - 1) : bins[i][1] = bins[i - 1][2]

\* what the binner has produced when it returns on N >= 1 events
BinsPartition ==
    /\ BinsChained
    /\ Size(bins) >= 1
    /\ Size(bins) <= BinN
    /\ bins[Size(bins) - 1][2] = BinN
    /\ \A e \in 0..(BinN - 1) :
          Cardinality({i \in DOMAIN bins : bins[i][1] <= e /\ e < bins[i][2]}) = 1
    /\ Size(frames) = Size(bins)
    /\ SumFrames(frames, Size(frames)) = BinN

\* C5: on N >= 1 events with non-decreasing t and duration > 0 the loop
\* terminates by returning, and the ranges it integrated, in order, are
\* non-empty, start at 0, end at N and are contiguous: every event is in
\* exactly one frame, there are between 1 and N frames, and they total N.
C5_BinsPartitionAndTerminate ==
    /\ [](BinN >= 1 => /\ BinsChained
                       /\ bin_pc # "IndexError"
                       /\ (bin_pc = "returned" => BinsPartition))
    /\ (BinN >= 1 ~> bin_pc = "returned")

\* a return with several frames, one of them holding several events
C5_Witness ==
    /\ bin_pc = "returned"
    /\ BinN >= 3
    /\ Size(bins) >= 2
    /\ \E i \in DOMAIN bins : bins[i][2] - bins[i][1] >= 2
    /\ BinsPartition

\* C6: every produced bin [left, right) keeps t[i] - t[left] <= duration for
\* its events, and every bin but the last is maximal:
\* t[right] - t[left] > duration for the first event after it.
C6_BinSpanAndGreedy ==
    bin_pc \in {"anchor", "extend", "integrate", "returned"} =>
        \A b \in DOMAIN bins :
            /\ \A i \in bins[b][1]..(bins[b][2] - 1) :
                  events.t[i] - events.t[bins[b][1]] <= duration
            /\ bins[b][2] < BinN =>
                  events.t[bins[b][2]] - events.t[bins[b][1]] > duration

\* a return whose first bin spans exactly the duration and is followed by another
C6_Witness ==
    /\ bin_pc = "returned"
    /\ Size(bins) >= 2
    /\ events.t[bins[0][2] - 1] - events.t[0] = duration
    /\ events.t[bins[0][2]] - events.t[0] > duration

\* C7: on an empty Event Record the binner raises no index error, and ends by
\* returning an empty frame sequence.
C7_EmptyRecordGuarded ==
    BinN = 0 =>
        /\ bin_pc # "IndexError"
        /\ (bin_pc = "returned" => frames = EmptyArray)

\* ------------------------------------------------------------------ claim C8
\* C8: padding N frames to target length L gives max(N, L) frames: the input
\* frames in order, then L - N all-zero frames of the input's [2, H, W] shape;
\* an input with N >= L comes back unchanged, and padding the result again
\* changes nothing.
C8_PadAppendsZeros ==
    pad_calls >= 1 =>
        LET N == pad_in.shape[1]
            L == max_frames_number
        IN  /\ pad_out.shape = <<Max(N, L), pad_in.shape[2], pad_in.shape[3], pad_in.shape[4]>>
            /\ DOMAIN pad_out.data = 0..(Max(N, L) - 1)
            /\ \A i \in 0..(N - 1) : pad_out.data[i] = pad_in.data[i]
            /\ \A i \in N..(L - 1) : pad_out.data[i] = ZeroFrame
            /\ (N >= L => pad_out = pad_in)

\* a short sequence with events, padded twice
C8_Witness ==
    /\ pad_calls = 2
    /\ pad_in.shape[1] >= 1
    /\ pad_in.shape[1] + 2 <= max_frames_number
    /\ pad_in.data[0] # ZeroFrame
    /\ pad_out.shape[1] = max_frames_number
    /\ pad_out.data[max_frames_number - 1] = ZeroFrame

\* ----------------------------------------------------------------- claim C10
\* C10: in frame mode with frames_number and duration both unset the
\* constructor raises its configuration error before any I/O: whatever the
\* dataset root holds at the start, no directory has been made and no
\* download, extraction or conversion started when the error is raised.
C10_ConfigErrorBeforeIO ==
    ctor_pc = "ValueError" => io = <<>>

\* ------------------------------------------------------- claims C11, C12, C17
Pending(fl) == {f \in DOMAIN fl : fl[f].state = "pending"}
RaisedFiles(fl) == {f \in DOMAIN fl : fl[f].state = "raised"}
Logged(entry) == \E i \in DOMAIN io : io[i] = entry

\* C11: in both frame paths, when one submitted conversion raises every
\* other one still runs to its end, and after the pool has joined the failure
\* reaches the caller: a call that leaves the pool has no unfinished future,
\* and a call with a conversion that raised does not end as constructed.
C11_FailuresIsolatedAndSurfaced ==
    /\ ctor_pc \in CtorEnded \cup {"results", "finish"} => Pending(future_list) = {}
    /\ ctor_pc = "constructed" => RaisedFiles(future_list) = {}

\* the largest of the frame counts the conversions returned (0 without files)
MaxResult(fl) ==
    IF DOMAIN fl = {} THEN 0 ELSE SetMax({fl[f].result : f \in DOMAIN fl})

AllReturned(fl) == \A f \in DOMAIN fl : fl[f].state = "returned"

ByDuration == cfg.data_type = "frame" /\ cfg.frames_number = None /\ cfg.duration # None

\* C12: by fixed duration, with every conversion returning, the call ends
\* constructed with max_frames_number and the saved max_frames_number.npy
\* equal to the largest returned frame count, whatever the order the workers
\* finished in; max_frames_number leaves 0 only when no future is unfinished,
\* and a worker's step writes neither max_frames_number nor the file.
C12_MaxReduceAfterJoin ==
    /\ [](ByDuration /\ Logged("integrate files") /\ AllReturned(future_list)
            /\ ctor_pc \in CtorEnded
          => /\ ctor_pc = "constructed"
             /\ Logged("save max_frames_number")
             /\ self_max_frames_number = MaxResult(future_list)
             /\ npy = MaxResult(future_list))
    /\ [][/\ (ByDuration /\ ctor_pc \in {"pool", "results"}
                /\ (self_max_frames_number' # self_max_frames_number \/ npy' # npy))
              => Pending(future_list) = {}
          /\ future_list' # future_list /\ ctor_pc = "pool"
              => UNCHANGED <<npy, self_max_frames_number>>]_vars

\* a call that ended after two or more conversions returned different frame
\* counts, the largest not read last, with that largest count saved
C12_Witness ==
    /\ ByDuration
    /\ ctor_pc = "constructed"
    /\ Size(future_list) >= 2
    /\ AllReturned(future_list)
    /\ future_list[Size(future_list) - 1].result < MaxResult(future_list)
    /\ Logged("save max_frames_number")
    /\ npy = MaxResult(future_list)

\* C17: over any sequence of calls on one root, whenever duration_<d> exists
\* when a call starts, max_frames_number.npy exists in it and holds the
\* largest frame count over all events files, each of which has its frames
\* file.
C17_DurationCacheConsistent ==
    (ctor_pc = "start" /\ "duration" \in fs) =>
        /\ npy # None
        /\ \A f \in 0..(ds.event_files - 1) : \E T \in 1..MaxFileFrames :
              <<f, T>> \in frames_np_files
        /\ \A p \in frames_np_files : p[2] <= npy
        /\ frames_np_files # {} => \E p \in frames_np_files : p[2] = npy

\* ----------------------------------------------------------------- claim C16
\* the window [t[0] + dt * i, t[0] + dt * (i + 1)) holds no timestamp
NoEventIn(i, dt) ==
    ~ \E j \in DOMAIN events_t :
        /\ events_t[0] + dt * i <= events_t[j]
        /\ events_t[j] < events_t[0] + dt * (i + 1)

\* C16: split_by = 'time' with frames_num >= 1 on non-decreasing timestamps
\* and dt = (t[N-1] - t[0]) // frames_num: when one of the frames_num windows
\* holds no event the call ends in an IndexError and returns no ranges
\* (always so when t[N-1] - t[0] < frames_num); when every window holds an
\* event the call returns ranges.
C16_EmptyWindowOutOfBounds ==
    (plan_pc = "done" /\ split_by = "time" /\ frames_num >= 1 /\ PlanN >= 1) =>
        LET dt == (events_t[PlanN - 1] - events_t[0]) \div frames_num
            empty == \E i \in 0..(frames_num - 1) : NoEventIn(i, dt)
        IN  /\ events_t[PlanN - 1] - events_t[0] < frames_num => empty
            /\ empty => /\ plan.status = "IndexError"
                        /\ plan.j_l = EmptyArray
                        /\ plan.j_r = EmptyArray
            /\ ~empty => /\ plan.status = "returned"
                         /\ DOMAIN plan.j_l = 0..(frames_num - 1)
                         /\ DOMAIN plan.j_r = 0..(frames_num - 1)

\* a 'time' plan with dt >= 1 that failed on a window without events between
\* two windows that hold events
C16_Witness ==
    /\ plan_pc = "done"
    /\ split_by = "time"
    /\ frames_num >= 3
    /\ PlanN >= 2
    /\ LET dt == (events_t[PlanN - 1] - events_t[0]) \div frames_num
       IN  /\ dt >= 1
           /\ ~NoEventIn(0, dt)
           /\ NoEventIn(1, dt)
           /\ ~NoEventIn(2, dt)
    /\ plan.status = "IndexError"

\* ----------------------------------------------------------------- claim C13
AtisN == Size(raw_data) \div 5

\* C13: on a file of N five-byte records load_ATIS_bin returns four arrays of
\* length N; record k gives x = b0, y = b1, p = the high bit of b2 and
\* t = (the low seven bits of b2) * 2^16 + b3 * 2^8 + b4, in file order, with
\* p in {0, 1} and 0 <= t < 2^23; the record [10, 20, 133, 0, 127] gives
\* x = 10, y = 20, p = 1, t = 327807.
C13_AtisRecordDecoding ==
    (atis_pc = "returned" /\ Size(raw_data) % 5 = 0) =>
        /\ \A key \in {"t", "x", "y", "p"} : DOMAIN atis[key] = 0..(AtisN - 1)
        /\ \A k \in 0..(AtisN - 1) :
              LET b(j) == raw_data[5 * k + j]
              IN  /\ atis.x[k] = b(0)
                  /\ atis.y[k] = b(1)
                  /\ atis.p[k] = b(2) \div 128
                  /\ atis.t[k] = (b(2) % 128) * 65536 + b(3) * 256 + b(4)
                  /\ atis.p[k] \in {0, 1}
                  /\ atis.t[k] >= 0
                  /\ atis.t[k] < 8388608
                  /\ (<<b(0), b(1), b(2), b(3), b(4)>> = <<10, 20, 133, 0, 127>>
                        => /\ atis.x[k] = 10
                           /\ atis.y[k] = 20
                           /\ atis.p[k] = 1
                           /\ atis.t[k] = 327807)

\* a decoded file of two records, the second one [10, 20, 133, 0, 127] after
\* a different first one
C13_Witness ==
    /\ atis_pc = "returned"
    /\ AtisN = 2
    /\ raw_data[0] # 10
    /\ <<raw_data[5], raw_data[6], raw_data[7], raw_data[8], raw_data[9]>>
          = <<10, 20, 133, 0, 127>>
    /\ atis.t[1] = 327807
    /\ atis.p[1] = 1
    /\ atis.t[0] # atis.t[1]

\* ------------------------------------------------------------ claims C14, C15
\* bit k of the little-endian word made of bytes w[first], ..., w[first + 3]
WordBit(w, first, k) == (w[first + (k \div 8)] \div (2 ^ (k % 8))) % 2 = 1

\* what the claim says an event e of a packet with overflow o decodes to:
\* x = bits 17..31 of the address, y = bits 2..16, p = bit 1, and a timestamp
\* with the low word's bits, or-ed with the overflow's bits from bit 31 up
ClaimedEvent(e, o) ==
    [t |-> {k \in 0..61 : \/ k < 32 /\ WordBit(e, 5, k)
                          \/ k >= 31 /\ (o \div (2 ^ (k - 31))) % 2 = 1},
     x |-> (e[3] \div 2) + 128 * e[4],
     y |-> (e[1] \div 4) + 64 * e[2] + 16384 * (e[3] % 2),
     p |-> (e[1] \div 2) % 2]

\* the offset of packet j in the file
RECURSIVE PacketOffset(_, _)
PacketOffset(pks, j) ==
    IF j = 0 THEN 0
    ELSE PacketOffset(pks, j - 1) + 28 + 8 * Size(pks[j - 1].events)

\* the events of the first n packets that are polarity events (type 1) and
\* end at or before byte limit of the file, in file order
RECURSIVE ClaimedEvents(_, _, _)
ClaimedEvents(pks, n, limit) ==
    IF n = 0 THEN <<>>
    ELSE LET pk == pks[n - 1]
             whole == {i \in DOMAIN pk.events :
                          PacketOffset(pks, n - 1) + 28 + 8 * (i + 1) <= limit}
         IN  ClaimedEvents(pks, n - 1, limit)
             \o (IF pk.e_type = 1
                 THEN [i \in 1..Cardinality(whole) |-> ClaimedEvent(pk.events[i - 1], pk.overflow)]
                 ELSE <<>>)

\* the four lists hold exactly the events of evs, in order
ListsAre(lists, evs) ==
    /\ \A key \in {"t", "x", "y", "p"} : DOMAIN lists[key] = 0..(Len(evs) - 1)
    /\ \A i \in 1..Len(evs) :
          /\ lists.t[i - 1] = evs[i].t
          /\ lists.x[i - 1] = evs[i].x
          /\ lists.y[i - 1] = evs[i].y
          /\ lists.p[i - 1] = evs[i].p

\* C14: on a file of whole packets load_aedat_v3 raises nothing and returns,
\* in file order, exactly the events of the packets of event type 1, each
\* with x = (addr >> 17) & 0x7FFF, y = (addr >> 2) & 0x7FFF,
\* p = (addr >> 1) & 1 and t = low32 | (overflow << 31) for the overflow of
\* its own packet; packets of another type add no event.
C14_PolarityPacketsDecoded ==
    /\ aedat_pc # "struct.error"
    /\ aedat_pc = "returned" =>
          ListsAre(txyp, ClaimedEvents(packets, Size(packets),
                                       PacketOffset(packets, Size(packets))))

\* a returned file of a special-event packet with an event, then a polarity
\* packet with overflow 3 whose event has bit 31 of its low timestamp set
C14_Witness ==
    /\ aedat_pc = "returned"
    /\ Size(packets) = 2
    /\ packets[0].e_type = 0
    /\ Size(packets[0].events) = 1
    /\ packets[1].e_type = 1
    /\ packets[1].overflow = 3
    /\ Size(txyp.t) = 1
    /\ {30, 31, 32} \subseteq txyp.t[0]
    /\ txyp.x[0] = 32767

\* C15: on a file cut off after any byte (inside a packet header, or inside
\* a packet body at or between event boundaries) load_aedat_v3 raises nothing
\* and returns the events that lie whole before the cut.
C15_TruncationTolerated ==
    /\ aedat_pc # "struct.error"
    /\ aedat_pc = "returned" =>
          ListsAre(txyp, ClaimedEvents(packets, Size(packets), Size(bin_f)))

====
